---------------------------- MODULE Spec2Model ----------------------------
(***************************************************************************)
(* Wildlife AI backend (backend/main.py, backend/database.py): the /detect *)
(* pipeline -- authenticate, infer, persist, cooldown gate, alert,         *)
(* notify, respond -- as a state machine.                                  *)
(*                                                                         *)
(* Scheduling.  detect is declared "async def" (main.py:233) and its only  *)
(* await is "await file.read()" (main.py:249).  A coroutine endpoint runs  *)
(* on the server's event loop, so get_user_by_token (main.py:244-246) is   *)
(* one uninterrupted step, and everything from run_inference to the return *)
(* (main.py:250-287) is a second stretch during which no other /detect     *)
(* coroutine runs.  The model keeps each statement of that stretch as its  *)
(* own step (so the order of the writes is visible) and records in         *)
(* "running" which request holds the event loop.  The clock keeps ticking  *)
(* while a handler blocks.                                                 *)
(*                                                                         *)
(* Specifications.  Spec is the pipeline with the database and the image  *)
(* decoder working; SpecFaulty adds the statements of detect that can      *)
(* raise and a user whose address the mail library rejects; SpecAuth is    *)
(* the /auth endpoints with the token check of detect; SpecApi is detect   *)
(* with the alert endpoints and one /auth request; SpecSelect follows one  *)
(* request over every small batch.                                         *)
(*                                                                         *)
(* Time is counted in whole seconds; confidences in whole percent.         *)
(***************************************************************************)
EXTENDS Integers, Sequences, FiniteSets

\* ------------------------------------------------------------------ bounds
MaxWindow == 2      \* ALERT_COOLDOWN_SECONDS ranges over 0..MaxWindow
MaxTicks  == 1      \* seconds the clock may advance
MaxBatch  == 3      \* detections per frame in the selector specification

\* Two /detect requests, named in the order they arrive: every claim about
\* requests is about one request or about a pair of them.
Reqs == {1, 2}

\* Two requests to /auth/login or /auth/register, served by the thread pool.
AuthReqs == {1, 2, 3}

\* --------------------------------------------------------------- constants
NULL == "NULL"      \* Python None / SQL NULL
None == 0           \* "no user": fetchone() found no row

\* time.time() is seconds since 1970, far above any cooldown window, while
\* _last_alert_time starts at 0.0: the first dangerous frame always fires.
StartTime == MaxWindow + 1
Times     == StartTime..(StartTime + MaxTicks)

DANGER_CLASSES == {"lion", "tiger", "elephant"}

\* str.lower() on the labels the model uses and the emails callers send.
Lower(s) ==
    CASE s = "Tiger"    -> "tiger"
      [] s = "LION"     -> "lion"
      [] s = "A@Farm"   -> "a@farm"
      [] s = "New@Farm" -> "new@farm"
      [] OTHER          -> s

\* One detection of run_inference: label, confidence, bbox = (x1,y1,x2,y2).
Det(l, c) == [label |-> l, confidence |-> c, bbox |-> <<10, 20, 50, 60>>]

\* The frames the requests of the pipeline specification carry: what
\* run_inference returns for them.
Batches ==
    { <<>>,
      << Det("deer", 99) >>,
      << Det("lion", 90), Det("human", 95), Det("deer", 99) >>,
      << Det("Tiger", 90), Det("lion", 90) >>,
      << Det("lion", 50), Det("elephant", 95) >> }

\* database.py:30-35, 39-44: bcrypt.  The hash is a function of the password
\* (and of a salt kept inside it); checkpw accepts the password hashed.
hash_password(password) == <<"bcrypt", password>>

verify_password(password, hashed) == hashed = hash_password(password)

\* The users table when the server starts: ensure_admin_exists() has made
\* the admin, who has never logged in (token NULL); three registered users
\* hold a session token, one of them registered with an empty email and one
\* with an email that has a line break in it (register takes any string).
InitUsers ==
    [u \in 1..4 |->
        CASE u = 1 -> [username |-> "admin",
                       password_hash |-> hash_password("admin123"),
                       email |-> "admin@wildlife.ai", token |-> NULL]
          [] u = 2 -> [username |-> "a@farm",
                       password_hash |-> hash_password("pwA"),
                       email |-> "a@farm", token |-> "tokA"]
          [] u = 3 -> [username |-> "",
                       password_hash |-> hash_password("pwB"),
                       email |-> "", token |-> "tokB"]
          [] u = 4 -> [username |-> "x\ny@z",
                       password_hash |-> hash_password("pwC"),
                       email |-> "x\ny@z", token |-> "tokC"]]

\* What a caller may send in the token header (None when it is missing).
TokenInputs == {NULL, "tokA", "tokB", "stale"}

\* The same with the token of the user whose address has a line break.
FaultyTokenInputs == TokenInputs \cup {"tokC"}

VARIABLES
    \* configuration, read from the environment when the module is imported
    ALERT_COOLDOWN_SECONDS, twilio_client, DEMO_SMS_NUMBER, email_creds,
    \* the YOLO model: loaded, or None when loading it failed (main.py:78-84)
    model,
    \* process state
    clock, _last_alert_time, running,
    \* database tables
    users, detections, logs, alerts,
    \* per-request locals of detect
    pc, token, user, dets, i, ts_db, now, top, response,
    \* history: what each request did
    lastSeen, overlapped, alertRows, setLast, sms, email,
    \* history: the statement of detect that raised, and the tokens issued
    fault, issued,
    \* the /auth requests (one record each) and the last answer of GET /alerts
    auth, fetched

config == <<ALERT_COOLDOWN_SECONDS, twilio_client, DEMO_SMS_NUMBER, email_creds,
            model>>
tables == <<users, detections, logs, alerts>>
locals == <<pc, token, user, dets, i, ts_db, now, top, response>>
hist   == <<lastSeen, overlapped, alertRows, setLast, sms, email, fault, issued>>
api    == <<auth, fetched>>
vars   == <<config, clock, _last_alert_time, running, tables, locals, hist, api>>

NoDet == [label |-> "", confidence |-> 0, bbox |-> <<0, 0, 0, 0>>]
NoResponse == [status |-> 0, detections |-> <<>>]

\* An /auth request not yet made: its place in the handler, what it sent,
\* the user row it works on, the status and token it is answered with, and
\* the database exception that ended it, if one did.
NoAuth == [pc |-> "new", email |-> "", password |-> "", user |-> None,
           status |-> 0, token |-> NULL, error |-> ""]

Init ==
    /\ ALERT_COOLDOWN_SECONDS \in 0..MaxWindow
    /\ twilio_client \in BOOLEAN
    /\ DEMO_SMS_NUMBER \in BOOLEAN
    /\ email_creds \in BOOLEAN
    /\ model \in BOOLEAN
    /\ clock = StartTime
    /\ _last_alert_time = 0
    /\ running = 0
    /\ users = InitUsers
    /\ detections = <<>>
    /\ logs = <<>>
    /\ alerts = <<>>
    /\ pc = [r \in Reqs |-> "new"]
    /\ token = [r \in Reqs |-> NULL]
    /\ user = [r \in Reqs |-> None]
    /\ dets = [r \in Reqs |-> <<>>]
    /\ i = [r \in Reqs |-> 0]
    /\ ts_db = [r \in Reqs |-> 0]
    /\ now = [r \in Reqs |-> 0]
    /\ top = [r \in Reqs |-> NoDet]
    /\ response = [r \in Reqs |-> NoResponse]
    /\ lastSeen = [r \in Reqs |-> 0]
    /\ overlapped = [r \in Reqs |-> FALSE]
    /\ alertRows = [r \in Reqs |-> 0]
    /\ setLast = [r \in Reqs |-> FALSE]
    /\ sms = [r \in Reqs |-> "none"]
    /\ email = [r \in Reqs |-> "none"]
    /\ fault = [r \in Reqs |-> "none"]
    /\ issued = <<>>
    /\ auth = [a \in AuthReqs |-> NoAuth]
    /\ fetched = <<>>

\* ------------------------------------------------------------ database.py
\* The lookup done with Python's ==, under which None equals None: a missing
\* token header finds the user whose token column is NULL.
get_user_by_token_py_eq(t) ==
    LET hits == {u \in DOMAIN users : users[u].token = t}
    IN  IF hits = {} THEN None
        ELSE CHOOSE u \in hits : \A v \in hits : u <= v

\* SELECT id, name, email, phone FROM users WHERE token=%s; fetchone().
\* In SQL "token = NULL" is true of no row.
get_user_by_token(t) ==
    LET hits == {u \in DOMAIN users : t # NULL /\ users[u].token = t}
    IN  IF hits = {} THEN None
        ELSE CHOOSE u \in hits : \A v \in hits : u <= v

\* INSERT INTO detections (timestamp,label,confidence,x,y,w,h,alert_sent)
insert_detection(timestamp, label, confidence, x, y, w, h, alert_sent) ==
    Append(detections,
           [timestamp |-> timestamp, label |-> label, confidence |-> confidence,
            x |-> x, y |-> y, w |-> w, h |-> h, alert_sent |-> alert_sent])

\* insert_log without conn.commit(): the row is dropped with the connection.
insert_log_no_commit(user_id, animal, confidence, image_path, message) == logs

\* INSERT INTO logs (user_id,animal,confidence,image_path,message)
insert_log(user_id, animal, confidence, image_path, message) ==
    Append(logs,
           [user_id |-> user_id, animal |-> animal, confidence |-> confidence,
            image_path |-> image_path, message |-> message])

\* insert_alert with the default is_read=1.
insert_alert_as_read(animal, confidence, image_path) ==
    Append(alerts,
           [animal |-> animal, confidence |-> confidence,
            image_path |-> image_path, is_read |-> 1, timestamp |-> clock])

\* INSERT INTO alerts (animal,confidence,image_path,is_read), is_read=0.
\* The timestamp column, which fetch_alerts sorts by, is not written by the
\* statement: the database fills it with the second of the insert.
insert_alert(animal, confidence, image_path) ==
    Append(alerts,
           [animal |-> animal, confidence |-> confidence,
            image_path |-> image_path, is_read |-> 0, timestamp |-> clock])

\* ---------------------------------------------------------------- main.py
\* time.time(): the clock never runs backwards.
Tick ==
    /\ clock < StartTime + MaxTicks
    /\ clock' = clock + 1
    /\ UNCHANGED <<config, api, _last_alert_time, running, tables, locals, hist>>

\* main.py:233, "async def detect": the event loop runs one coroutine at a
\* time, and a coroutine gives the loop up only at an await.
LoopFree == running = 0

\* detect has no try/except (main.py:232-287): an exception raised by one of
\* its statements leaves the coroutine there, and FastAPI answers 500.  What
\* was committed before stays; nothing after the statement runs.
Faults == {"get_user_by_token", "decode", "run_inference", "insert_detection",
           "insert_log", "insert_alert", "send_email_alert"}

ServerError == [status |-> 500, detections |-> <<>>]

Raise(r, statement) ==
    /\ fault' = [fault EXCEPT ![r] = statement]
    /\ response' = [response EXCEPT ![r] = ServerError]
    /\ running' = 0
    /\ pc' = [pc EXCEPT ![r] = "done"]

\* POST /detect, main.py:243-246: resolve the token; 401 when no user has it.
\* The request is then suspended in "await file.read()" (main.py:249).
DetectAuth(r, t) ==
    /\ pc[r] = "new"
    /\ \A q \in Reqs : q < r => pc[q] # "new"     \* ids follow arrival order
    /\ LoopFree
    /\ token' = [token EXCEPT ![r] = t]
    /\ user' = [user EXCEPT ![r] = get_user_by_token(t)]
    /\ IF get_user_by_token(t) = None
       THEN /\ pc' = [pc EXCEPT ![r] = "done"]
            /\ response' = [response EXCEPT ![r] =
                               [status |-> 401, detections |-> <<>>]]
       ELSE /\ pc' = [pc EXCEPT ![r] = "read"]
            /\ UNCHANGED response
    /\ UNCHANGED <<config, api, clock, _last_alert_time, running, tables,
                   dets, i, ts_db, now, top, hist>>

\* main.py:139-159: run_inference, b being what the model finds in the
\* frame; without a model the answer is the empty list (main.py:144-145).
run_inference(b) == IF model THEN b ELSE <<>>

\* main.py:249-253: the coroutine resumes, decodes the frame, runs the model
\* on it and takes ts_db.
DetectInfer(r, b) ==
    /\ pc[r] = "read"
    /\ LoopFree
    /\ running' = r
    /\ dets' = [dets EXCEPT ![r] = run_inference(b)]
    /\ ts_db' = [ts_db EXCEPT ![r] = clock]
    /\ i' = [i EXCEPT ![r] = 1]
    /\ pc' = [pc EXCEPT ![r] = "persist"]
    /\ overlapped' = [q \in Reqs |->
                        \/ overlapped[q]
                        \/ q # r /\ pc[q] = "read"
                        \/ q = r /\ \E o \in Reqs \ {r} : pc[o] = "read"]
    /\ UNCHANGED <<config, api, clock, _last_alert_time, tables,
                   token, user, now, top, response,
                   lastSeen, alertRows, setLast, sms, email,
                   fault, issued>>

\* main.py:257-268: a turn of "for d in detections" begins: insert_detection
\* writes and commits its row on a connection of its own.
DetectPersist(r) ==
    /\ pc[r] = "persist"
    /\ i[r] <= Len(dets[r])
    /\ LET d  == dets[r][i[r]]
           x1 == d.bbox[1]
           y1 == d.bbox[2]
           x2 == d.bbox[3]
           y2 == d.bbox[4]
       IN  detections' = insert_detection(ts_db[r], d.label, d.confidence,
                                          x1, y1, x2 - x1, y2 - y1, user[r])
    /\ pc' = [pc EXCEPT ![r] = "log"]
    /\ UNCHANGED <<config, api, clock, _last_alert_time, running,
                   users, logs, alerts,
                   token, user, dets, i, ts_db, now, top, response, hist>>

\* main.py:269: insert_log writes and commits the log row of the detection
\* on another connection; the turn is over.
DetectLog(r) ==
    /\ pc[r] = "log"
    /\ LET d == dets[r][i[r]]
       IN  logs' = insert_log(user[r], d.label, d.confidence, "",
                              "frame detection")
    /\ i' = [i EXCEPT ![r] = @ + 1]
    /\ pc' = [pc EXCEPT ![r] = "persist"]
    /\ UNCHANGED <<config, api, clock, _last_alert_time, running,
                   users, detections, alerts,
                   token, user, dets, ts_db, now, top, response, hist>>

\* main.py:272: [d for d in detections if d["label"].lower() in DANGER_CLASSES],
\* with the set it reads from the module global as a parameter.
DangerIn(batch, classes) ==
    SelectSeq(batch, LAMBDA d : Lower(d.label) \in classes)

Danger(batch) == DangerIn(batch, DANGER_CLASSES)

\* main.py:277: max(danger, key=lambda x: x["confidence"]).  Python's max keeps
\* the first of the items with the largest key: a later item replaces the
\* best so far only when its key is strictly larger.
\* max with ">=": the last of the items with the largest key.
RECURSIVE MaxFromLast(_, _, _)
MaxFromLast(s, k, best) ==
    IF k > Len(s) THEN best
    ELSE MaxFromLast(s, k + 1,
                     IF s[k].confidence >= best.confidence THEN s[k] ELSE best)

RECURSIVE MaxFrom(_, _, _)
MaxFrom(s, k, best) ==
    IF k > Len(s) THEN best
    ELSE MaxFrom(s, k + 1,
                 IF s[k].confidence > best.confidence THEN s[k] ELSE best)

max_confidence(s) == MaxFrom(s, 2, s[1])

\* The test with the last alert's time left out of it.
CooldownElapsedNoLast(t, last) == t >= ALERT_COOLDOWN_SECONDS

\* The test with ">" for ">=".
CooldownElapsedStrict(t, last) == t - last > ALERT_COOLDOWN_SECONDS

\* main.py:276: now - _last_alert_time >= ALERT_COOLDOWN_SECONDS
CooldownElapsed(t, last) == t - last >= ALERT_COOLDOWN_SECONDS

\* The gate with "_last_alert_time = now" (main.py:285) moved out of the if.
DetectGateDedent(r) ==
    /\ pc[r] = "persist"
    /\ i[r] > Len(dets[r])
    /\ now' = [now EXCEPT ![r] = clock]
    /\ lastSeen' = [lastSeen EXCEPT ![r] = _last_alert_time]
    /\ IF Danger(dets[r]) # <<>> /\ CooldownElapsed(clock, _last_alert_time)
       THEN /\ top' = [top EXCEPT ![r] = max_confidence(Danger(dets[r]))]
            /\ pc' = [pc EXCEPT ![r] = "alert"]
            /\ UNCHANGED _last_alert_time
       ELSE /\ pc' = [pc EXCEPT ![r] = "respond"]
            /\ _last_alert_time' = clock
            /\ UNCHANGED top
    /\ UNCHANGED <<config, api, clock, running, tables,
                   token, user, dets, i, ts_db, response,
                   overlapped, alertRows, setLast, sms, email,
                   fault, issued>>

\* A cooldown kept per user: the last alert counts only when the newest
\* alert row is of the request's own user.
DetectGatePerUser(r) ==
    /\ pc[r] = "persist"
    /\ i[r] > Len(dets[r])
    /\ now' = [now EXCEPT ![r] = clock]
    /\ lastSeen' = [lastSeen EXCEPT ![r] = _last_alert_time]
    /\ LET own  == alerts # <<>> /\ alerts[Len(alerts)].image_path = user[r]
           last == IF own THEN _last_alert_time ELSE 0
       IN  IF Danger(dets[r]) # <<>> /\ CooldownElapsed(clock, last)
           THEN /\ top' = [top EXCEPT ![r] = max_confidence(Danger(dets[r]))]
                /\ pc' = [pc EXCEPT ![r] = "alert"]
           ELSE /\ pc' = [pc EXCEPT ![r] = "respond"]
                /\ UNCHANGED top
    /\ UNCHANGED <<config, api, clock, _last_alert_time, running, tables,
                   token, user, dets, i, ts_db, response,
                   overlapped, alertRows, setLast, sms, email,
                   fault, issued>>

\* main.py:272-277: the loop is over; filter, read the clock, decide.
DetectGate(r) ==
    /\ pc[r] = "persist"
    /\ i[r] > Len(dets[r])
    /\ now' = [now EXCEPT ![r] = clock]
    /\ lastSeen' = [lastSeen EXCEPT ![r] = _last_alert_time]
    /\ IF Danger(dets[r]) # <<>> /\ CooldownElapsed(clock, _last_alert_time)
       THEN /\ top' = [top EXCEPT ![r] = max_confidence(Danger(dets[r]))]
            /\ pc' = [pc EXCEPT ![r] = "alert"]
       ELSE /\ pc' = [pc EXCEPT ![r] = "respond"]
            /\ UNCHANGED top
    /\ UNCHANGED <<config, api, clock, _last_alert_time, running, tables,
                   token, user, dets, i, ts_db, response,
                   overlapped, alertRows, setLast, sms, email,
                   fault, issued>>

\* main.py:278: insert_alert(top["label"], top["confidence"], user["id"])
DetectAlert(r) ==
    /\ pc[r] = "alert"
    /\ alerts' = insert_alert(top[r].label, top[r].confidence, user[r])
    /\ alertRows' = [alertRows EXCEPT ![r] = @ + 1]
    /\ pc' = [pc EXCEPT ![r] = "sms"]
    /\ UNCHANGED <<config, api, clock, _last_alert_time, running,
                   users, detections, logs,
                   token, user, dets, i, ts_db, now, top, response,
                   lastSeen, overlapped, setLast, sms, email,
                   fault, issued>>

\* The test without the destination number.
SmsConfiguredClientOnly == twilio_client

\* main.py:168: if not twilio_client or not DEMO_SMS_NUMBER: skip
SmsConfigured == twilio_client /\ DEMO_SMS_NUMBER

\* send_sms_alert without its try/except: a provider error leaves detect as
\* an unhandled exception, which the server answers with 500.
DetectSmsRaises(r) ==
    /\ pc[r] = "sms"
    /\ IF ~SmsConfigured
       THEN /\ sms' = [sms EXCEPT ![r] = "skipped"]
            /\ pc' = [pc EXCEPT ![r] = "email"]
            /\ UNCHANGED <<running, response>>
       ELSE \E ok \in BOOLEAN :
               /\ sms' = [sms EXCEPT ![r] = IF ok THEN "sent" ELSE "error"]
               /\ IF ok
                  THEN /\ pc' = [pc EXCEPT ![r] = "email"]
                       /\ UNCHANGED <<running, response>>
                  ELSE /\ pc' = [pc EXCEPT ![r] = "done"]
                       /\ running' = 0
                       /\ response' = [response EXCEPT ![r] =
                                          [status |-> 500, detections |-> <<>>]]
    /\ UNCHANGED <<config, api, clock, _last_alert_time, tables,
                   token, user, dets, i, ts_db, now, top,
                   lastSeen, overlapped, alertRows, setLast, email,
                   fault, issued>>

\* main.py:280, 164-188: send_sms_alert.  A provider error is caught and
\* printed (main.py:187-188); the function returns normally either way.
DetectSms(r) ==
    /\ pc[r] = "sms"
    /\ IF ~SmsConfigured
       THEN sms' = [sms EXCEPT ![r] = "skipped"]
       ELSE \E ok \in BOOLEAN :
               sms' = [sms EXCEPT ![r] = IF ok THEN "sent" ELSE "error"]
    /\ pc' = [pc EXCEPT ![r] = "email"]
    /\ UNCHANGED <<config, api, clock, _last_alert_time, running, tables,
                   token, user, dets, i, ts_db, now, top, response,
                   lastSeen, overlapped, alertRows, setLast, email,
                   fault, issued>>

\* main.py:200: if not email_from or not email_pass: disabled
EmailConfigured == email_creds

\* EmailMessage refuses a header value with a line break in it:
\* msg["To"] = to_email raises ValueError (main.py:207).
HeaderSafe(address) == address # "x\ny@z"

\* main.py:282-283, 193-227: send_email_alert when the user has an email.
\* The message is built outside the try (main.py:204-219), so an address
\* that is no header value ends the request; an SMTP error is caught and
\* printed (main.py:221-227).
DetectEmail(r) ==
    /\ pc[r] = "email"
    /\ LET address == users[user[r]].email
       IN  IF address # "" /\ EmailConfigured /\ ~HeaderSafe(address)
           THEN /\ Raise(r, "send_email_alert")
                /\ UNCHANGED email
           ELSE /\ IF address = ""
                   THEN email' = [email EXCEPT ![r] = "noaddress"]
                   ELSE IF ~EmailConfigured
                        THEN email' = [email EXCEPT ![r] = "disabled"]
                        ELSE \E ok \in BOOLEAN :
                                email' = [email EXCEPT ![r] =
                                             IF ok THEN "sent" ELSE "error"]
                /\ pc' = [pc EXCEPT ![r] = "commit"]
                /\ UNCHANGED <<running, response, fault>>
    /\ UNCHANGED <<config, api, clock, _last_alert_time, tables,
                   token, user, dets, i, ts_db, now, top,
                   lastSeen, overlapped, alertRows, setLast, sms,
                   issued>>

\* The assignment without "global _last_alert_time" (main.py:241): it binds
\* a local name and the module's variable keeps its value.
DetectCommitLocal(r) ==
    /\ pc[r] = "commit"
    /\ setLast' = [setLast EXCEPT ![r] = TRUE]
    /\ pc' = [pc EXCEPT ![r] = "respond"]
    /\ UNCHANGED <<config, api, clock, _last_alert_time, running, tables,
                   token, user, dets, i, ts_db, now, top, response,
                   lastSeen, overlapped, alertRows, sms, email,
                   fault, issued>>

\* The assignment storing the time since the last alert, not the time.
DetectCommitElapsed(r) ==
    /\ pc[r] = "commit"
    /\ _last_alert_time' = now[r] - _last_alert_time
    /\ setLast' = [setLast EXCEPT ![r] = TRUE]
    /\ pc' = [pc EXCEPT ![r] = "respond"]
    /\ UNCHANGED <<config, api, clock, running, tables,
                   token, user, dets, i, ts_db, now, top, response,
                   lastSeen, overlapped, alertRows, sms, email,
                   fault, issued>>

\* main.py:285: _last_alert_time = now
DetectCommit(r) ==
    /\ pc[r] = "commit"
    /\ _last_alert_time' = now[r]
    /\ setLast' = [setLast EXCEPT ![r] = TRUE]
    /\ pc' = [pc EXCEPT ![r] = "respond"]
    /\ UNCHANGED <<config, api, clock, running, tables,
                   token, user, dets, i, ts_db, now, top, response,
                   lastSeen, overlapped, alertRows, sms, email,
                   fault, issued>>

\* detect returning only the dangerous detections.
DetectRespondDangerOnly(r) ==
    /\ pc[r] = "respond"
    /\ response' = [response EXCEPT ![r] =
                       [status |-> 200, detections |-> Danger(dets[r])]]
    /\ running' = 0
    /\ pc' = [pc EXCEPT ![r] = "done"]
    /\ UNCHANGED <<config, api, clock, _last_alert_time, tables,
                   token, user, dets, i, ts_db, now, top, hist>>

\* main.py:287: return {"detections": detections}; the event loop is free.
DetectRespond(r) ==
    /\ pc[r] = "respond"
    /\ response' = [response EXCEPT ![r] =
                       [status |-> 200, detections |-> dets[r]]]
    /\ running' = 0
    /\ pc' = [pc EXCEPT ![r] = "done"]
    /\ UNCHANGED <<config, api, clock, _last_alert_time, tables,
                   token, user, dets, i, ts_db, now, top, hist>>

Next ==
    \/ Tick
    \/ \E r \in Reqs, t \in TokenInputs : DetectAuth(r, t)
    \/ \E r \in Reqs, b \in Batches : DetectInfer(r, b)
    \/ \E r \in Reqs : DetectPersist(r)
    \/ \E r \in Reqs : DetectLog(r)
    \/ \E r \in Reqs : DetectGate(r)
    \/ \E r \in Reqs : DetectAlert(r)
    \/ \E r \in Reqs : DetectSms(r)
    \/ \E r \in Reqs : DetectEmail(r)
    \/ \E r \in Reqs : DetectCommit(r)
    \/ \E r \in Reqs : DetectRespond(r)

Spec == Init /\ [][Next]_vars

\* ------------------------------------------- detect with failing statements
\* The database, the image decoder and the model can fail under detect.

\* main.py:244 with the database failing: get_user_by_token has no
\* try/except (database.py:235-249).
DetectAuthFails(r, t) ==
    /\ pc[r] = "new"
    /\ \A q \in Reqs : q < r => pc[q] # "new"
    /\ LoopFree
    /\ token' = [token EXCEPT ![r] = t]
    /\ Raise(r, "get_user_by_token")
    /\ UNCHANGED <<config, api, clock, _last_alert_time, tables,
                   user, dets, i, ts_db, now, top,
                   lastSeen, overlapped, alertRows, setLast, sms, email,
                   issued>>

\* main.py:250, 147: the loaded model raises on the frame.  Without a model
\* run_inference has returned before (main.py:144-145).
DetectInferFails(r) ==
    /\ pc[r] = "read"
    /\ LoopFree
    /\ model
    /\ Raise(r, "run_inference")
    /\ UNCHANGED <<config, api, clock, _last_alert_time, tables,
                   token, user, dets, i, ts_db, now, top,
                   lastSeen, overlapped, alertRows, setLast, sms, email,
                   issued>>

\* main.py:249: Image.open raises on bytes that are no image, before
\* run_inference is called.
DetectDecodeFails(r) ==
    /\ pc[r] = "read"
    /\ LoopFree
    /\ Raise(r, "decode")
    /\ UNCHANGED <<config, api, clock, _last_alert_time, tables,
                   token, user, dets, i, ts_db, now, top,
                   lastSeen, overlapped, alertRows, setLast, sms, email,
                   issued>>

\* main.py:257-269 with the database failing in this turn of the loop:
\* insert_detection raises (database.py:141-149), or, its row committed,
\* insert_log raises (database.py:173-179).
DetectPersistFails(r, statement) ==
    /\ \/ statement = "insert_detection"
          /\ pc[r] = "persist" /\ i[r] <= Len(dets[r])
       \/ statement = "insert_log" /\ pc[r] = "log"
    /\ Raise(r, statement)
    /\ UNCHANGED <<config, api, clock, _last_alert_time, tables,
                   token, user, dets, i, ts_db, now, top,
                   lastSeen, overlapped, alertRows, setLast, sms, email,
                   issued>>

\* insert_alert fails and the failure is swallowed: detect carries on with
\* the notifications.
DetectAlertFailsCaught(r) ==
    /\ pc[r] = "alert"
    /\ fault' = [fault EXCEPT ![r] = "insert_alert"]
    /\ pc' = [pc EXCEPT ![r] = "sms"]
    /\ UNCHANGED <<config, api, clock, _last_alert_time, running, tables,
                   token, user, dets, i, ts_db, now, top, response,
                   lastSeen, overlapped, alertRows, setLast, sms, email,
                   issued>>

\* main.py:278 with insert_alert raising (database.py:158-164): no row, and
\* main.py:280-285 are not reached.
DetectAlertFails(r) ==
    /\ pc[r] = "alert"
    /\ Raise(r, "insert_alert")
    /\ UNCHANGED <<config, api, clock, _last_alert_time, tables,
                   token, user, dets, i, ts_db, now, top,
                   lastSeen, overlapped, alertRows, setLast, sms, email,
                   issued>>

\* The service with all notification channels configured, the database,
\* the image decoder and the model failing at will, and the user whose
\* address is no header value sending frames too.
InitFaulty ==
    /\ Init
    /\ ALERT_COOLDOWN_SECONDS = MaxWindow
    /\ twilio_client /\ DEMO_SMS_NUMBER /\ email_creds

NextFaulty ==
    \/ Next
    \/ \E r \in Reqs : DetectAuth(r, "tokC")
    \/ \E r \in Reqs, t \in FaultyTokenInputs : DetectAuthFails(r, t)
    \/ \E r \in Reqs : DetectDecodeFails(r)
    \/ \E r \in Reqs : DetectInferFails(r)
    \/ \E r \in Reqs, statement \in Faults : DetectPersistFails(r, statement)
    \/ \E r \in Reqs : DetectAlertFails(r)

SpecFaulty == InitFaulty /\ [][NextFaulty]_vars

\* ------------------------------------------ the thread-pool endpoints
\* register, login, mark_read and get_alerts are plain "def" handlers:
\* FastAPI runs them in its thread pool, so they do not wait for the event
\* loop and their database statements interleave with the steps of detect.

\* What get_user_by_username gives when the statement matched several rows.
InternalError == -1

\* database.py:49-64: SELECT * FROM users WHERE username=%s; fetchone().
\* The cursor is unbuffered: when the statement matched a second row,
\* cur.close() in the finally (database.py:62) raises InternalError
\* ("Unread result found"), which replaces the return.
get_user_by_username(username) ==
    LET hits == {u \in DOMAIN users : users[u].username = username}
    IN  IF hits = {} THEN None
        ELSE IF Cardinality(hits) = 1 THEN CHOOSE u \in hits : TRUE
        ELSE InternalError

\* Some username is on two rows of the users table.
HasDuplicates ==
    \E u, v \in DOMAIN users : u # v /\ users[u].username = users[v].username

\* The schema is not part of the sources: username may or may not carry a
\* unique key.  A table with two rows of one username has none; a table
\* that has refused an INSERT (IntegrityError) has one.
SchemaAllows(unique) ==
    IF unique THEN ~HasDuplicates
    ELSE \A a \in AuthReqs : auth[a].error # "IntegrityError"

\* database.py:67-86: INSERT INTO users (username, password_hash, name,
\* email, phone) and commit; the token column is left NULL.
create_user(username, password, mail) ==
    Append(users, [username |-> username,
                   password_hash |-> hash_password(password),
                   email |-> mail, token |-> NULL])

\* database.py:104: str(uuid.uuid4()), a token never issued before.
UuidPool == <<"uuid1", "uuid2", "uuid3">>
uuid4 == UuidPool[Len(issued) + 1]

\* update_user_token with a narrower WHERE clause:
\* UPDATE users SET token=%s WHERE token IS NULL AND id=%s.
update_user_token_if_null(user_id, t) ==
    IF users[user_id].token = NULL
    THEN [users EXCEPT ![user_id].token = t]
    ELSE users

\* database.py:99-116: UPDATE users SET token=%s WHERE id=%s.
update_user_token(user_id, t) == [users EXCEPT ![user_id].token = t]

\* mark_all_alerts_read as "SET is_read = 1 - is_read" on every row.
mark_all_alerts_read_toggle ==
    [k \in DOMAIN alerts |-> [alerts[k] EXCEPT !.is_read = 1 - @]]

\* database.py:223-232: UPDATE alerts SET is_read=1 WHERE is_read=0.
mark_all_alerts_read ==
    [k \in DOMAIN alerts |->
        IF alerts[k].is_read = 0 THEN [alerts[k] EXCEPT !.is_read = 1]
        ELSE alerts[k]]

\* The orders in which ORDER BY timestamp DESC can return the rows: later
\* seconds first; among rows of one second SQL leaves the order open.
NewestFirst ==
    LET n == Len(alerts)
    IN  {p \in [1..n -> 1..n] :
            /\ \A a, b \in 1..n : a # b => p[a] # p[b]
            /\ \A a, b \in 1..n :
                  a < b => alerts[p[a]].timestamp >= alerts[p[b]].timestamp}

\* database.py:184-194: SELECT * FROM alerts ORDER BY timestamp DESC LIMIT
\* %s: the answers the statement can give.
fetch_alerts(limit) ==
    LET n == Len(alerts)
        m == IF limit < n THEN limit ELSE n
    IN  {[k \in 1..m |-> alerts[p[k]]] : p \in NewestFirst}

\* What callers send to /auth/login and /auth/register (email, password).
Credentials(e, p) == [email |-> e, password |-> p]

LoginInputs ==
    { Credentials("admin", "admin123"), Credentials("A@Farm", "pwA"),
      Credentials("a@farm", "wrong"), Credentials("New@Farm", "pwN") }

RegisterInputs ==
    { Credentials("New@Farm", "pwN"), Credentials("A@Farm", "pwZ") }

Answer(a, req, u, status, t) ==
    auth' = [auth EXCEPT ![a] =
                [pc |-> "done", email |-> req.email, password |-> req.password,
                 user |-> u, status |-> status, token |-> t, error |-> ""]]

\* A database exception leaves the handler: FastAPI answers 500.
Unhandled(a, req, exception) ==
    auth' = [auth EXCEPT ![a] =
                [pc |-> "done", email |-> req.email, password |-> req.password,
                 user |-> None, status |-> 500, token |-> NULL,
                 error |-> exception]]

\* main.py:128-131: login reads the row of the username and checks the
\* password against its hash.
Login(a, req) ==
    /\ auth[a].pc = "new"
    /\ LET u == get_user_by_username(Lower(req.email))
       IN  IF u = InternalError
           THEN Unhandled(a, req, "InternalError")
           ELSE IF u = None
                   \/ ~verify_password(req.password, users[u].password_hash)
           THEN Answer(a, req, None, 401, NULL)
           ELSE auth' = [auth EXCEPT ![a] =
                            [NoAuth EXCEPT !.pc = "update", !.email = req.email,
                                           !.password = req.password,
                                           !.user = u]]
    /\ UNCHANGED <<config, clock, _last_alert_time, running, tables, locals,
                   hist, fetched>>

\* main.py:133-134: update_user_token on a connection of its own, and the
\* answer.
LoginIssue(a) ==
    /\ auth[a].pc = "update"
    /\ users' = update_user_token(auth[a].user, uuid4)
    /\ issued' = Append(issued, <<auth[a].user, uuid4>>)
    /\ auth' = [auth EXCEPT ![a].pc = "done", ![a].status = 200,
                            ![a].token = uuid4]
    /\ UNCHANGED <<config, clock, _last_alert_time, running,
                   detections, logs, alerts, locals,
                   lastSeen, overlapped, alertRows, setLast, sms, email,
                   fault, fetched>>

\* main.py:111-114: register finds the username taken, or goes on.
RegisterCheck(a, req) ==
    /\ auth[a].pc = "new"
    /\ IF get_user_by_username(Lower(req.email)) = InternalError
       THEN Unhandled(a, req, "InternalError")
       ELSE IF get_user_by_username(Lower(req.email)) # None
       THEN Answer(a, req, None, 400, NULL)
       ELSE auth' = [auth EXCEPT ![a] =
                        [NoAuth EXCEPT !.pc = "create", !.email = req.email,
                                       !.password = req.password]]
    /\ UNCHANGED <<config, clock, _last_alert_time, running, tables, locals,
                   hist, fetched>>

\* main.py:116, database.py:74-86: the INSERT of create_user and its
\* commit.  If another register has made the username meanwhile, the INSERT
\* makes a second row with it, or, under a unique key on username, raises
\* IntegrityError, and create_user re-raises (database.py:91-93).
RegisterCreate(a, unique) ==
    /\ auth[a].pc = "create"
    /\ SchemaAllows(unique)
    /\ IF unique /\ get_user_by_username(Lower(auth[a].email)) # None
       THEN /\ Unhandled(a, auth[a], "IntegrityError")
            /\ UNCHANGED users
       ELSE /\ users' = create_user(Lower(auth[a].email), auth[a].password,
                                    auth[a].email)
            /\ auth' = [auth EXCEPT ![a].pc = "select"]
    /\ UNCHANGED <<config, clock, _last_alert_time, running,
                   detections, logs, alerts, locals, hist, fetched>>

\* database.py:88-95: create_user reads the row back on the same cursor
\* (SELECT * FROM users WHERE username=%s; fetchone()).  With a second row
\* of the username cur.close() raises InternalError after the commit: the
\* row stays and register ends unhandled.
RegisterSelect(a) ==
    /\ auth[a].pc = "select"
    /\ IF get_user_by_username(Lower(auth[a].email)) = InternalError
       THEN Unhandled(a, auth[a], "InternalError")
       ELSE auth' = [auth EXCEPT ![a].pc = "token"]
    /\ UNCHANGED <<config, clock, _last_alert_time, running, tables, locals,
                   hist, fetched>>

\* main.py:117: the row is read back.
RegisterRead(a) ==
    /\ auth[a].pc = "token"
    /\ LET u == get_user_by_username(Lower(auth[a].email))
       IN  IF u = InternalError
           THEN Unhandled(a, auth[a], "InternalError")
           ELSE auth' = [auth EXCEPT ![a].pc = "issue", ![a].user = u]
    /\ UNCHANGED <<config, clock, _last_alert_time, running, tables, locals,
                   hist, fetched>>

\* main.py:118-120: update_user_token on a connection of its own, and the
\* answer.
RegisterIssue(a) ==
    /\ auth[a].pc = "issue"
    /\ users' = update_user_token(auth[a].user, uuid4)
    /\ issued' = Append(issued, <<auth[a].user, uuid4>>)
    /\ auth' = [auth EXCEPT ![a].pc = "done", ![a].status = 200,
                            ![a].token = uuid4]
    /\ UNCHANGED <<config, clock, _last_alert_time, running,
                   detections, logs, alerts, locals,
                   lastSeen, overlapped, alertRows, setLast, sms, email,
                   fault, fetched>>

\* main.py:296-299: POST /alerts/mark-read.
MarkRead ==
    /\ alerts' = mark_all_alerts_read
    /\ UNCHANGED <<config, clock, _last_alert_time, running,
                   users, detections, logs, locals, hist, api>>

\* main.py:292-294: GET /alerts?limit=...
GetAlerts(limit) ==
    /\ fetched' \in fetch_alerts(limit)
    /\ UNCHANGED <<config, clock, _last_alert_time, running, tables, locals,
                   hist, auth>>

\* Every token a caller can hold: those of the start and those issued.
AuthTokenInputs == TokenInputs \cup {UuidPool[k] : k \in 1..Len(UuidPool)}

\* Sessions: the /auth endpoints and the token check of /detect.
InitAuth ==
    /\ Init
    /\ ALERT_COOLDOWN_SECONDS = MaxWindow
    /\ twilio_client /\ DEMO_SMS_NUMBER /\ email_creds /\ model

NextAuth ==
    \/ \E a \in AuthReqs, req \in LoginInputs : Login(a, req)
    \/ \E a \in AuthReqs : LoginIssue(a)
    \/ \E a \in AuthReqs, req \in RegisterInputs : RegisterCheck(a, req)
    \/ \E a \in AuthReqs, unique \in BOOLEAN : RegisterCreate(a, unique)
    \/ \E a \in AuthReqs : RegisterSelect(a)
    \/ \E a \in AuthReqs : RegisterRead(a)
    \/ \E a \in AuthReqs : RegisterIssue(a)
    \/ \E r \in Reqs, t \in AuthTokenInputs : DetectAuth(r, t)

SpecAuth == InitAuth /\ [][NextAuth]_vars

\* The whole API with every dangerous frame firing (a window of 0): detect,
\* the alert endpoints and one /auth request.
InitApi ==
    /\ Init
    /\ ALERT_COOLDOWN_SECONDS = 0
    /\ twilio_client /\ DEMO_SMS_NUMBER /\ email_creds /\ model

NextApi ==
    \/ \E r \in Reqs, t \in TokenInputs : DetectAuth(r, t)
    \/ \E r \in Reqs, b \in Batches : DetectInfer(r, b)
    \/ \E r \in Reqs : DetectPersist(r)
    \/ \E r \in Reqs : DetectLog(r)
    \/ \E r \in Reqs : DetectGate(r)
    \/ \E r \in Reqs : DetectAlert(r)
    \/ \E r \in Reqs : DetectSms(r)
    \/ \E r \in Reqs : DetectEmail(r)
    \/ \E r \in Reqs : DetectCommit(r)
    \/ \E r \in Reqs : DetectRespond(r)
    \/ MarkRead
    \/ \E limit \in {1, 50} : GetAlerts(limit)
    \/ \E req \in LoginInputs : Login(1, req)
    \/ LoginIssue(1)
    \/ \E req \in RegisterInputs : RegisterCheck(1, req)
    \/ \E unique \in BOOLEAN : RegisterCreate(1, unique)
    \/ RegisterSelect(1)
    \/ RegisterRead(1)
    \/ RegisterIssue(1)

SpecApi == InitApi /\ [][NextApi]_vars

\* ------------------------------------------------- selector specification
\* One request of a logged-in user carrying any frame of up to MaxBatch
\* detections, followed from its token check to its alert row.
Labels      == {"lion", "Tiger", "human", "deer"}
Confidences == {90, 95, 99}
AllBatches  ==
    UNION { [1..n -> {Det(l, c) : l \in Labels, c \in Confidences}] :
            n \in 0..MaxBatch }

InitSelect ==
    /\ Init
    /\ ALERT_COOLDOWN_SECONDS = MaxWindow
    /\ twilio_client /\ DEMO_SMS_NUMBER /\ email_creds
    /\ model

NextSelect ==
    \/ DetectAuth(1, "tokA")
    \/ pc[1] = "read" /\ \E b \in AllBatches : DetectInfer(1, b)
    \/ DetectPersist(1)
    \/ DetectLog(1)
    \/ DetectGate(1)
    \/ DetectAlert(1)

SpecSelect == InitSelect /\ [][NextSelect]_vars

\* ------------------------------------------------------------- properties
Body == {"persist", "log", "alert", "sms", "email", "commit", "respond"}

\* The request holding the event loop is the one inside main.py:250-287.
TypeOK ==
    /\ clock \in Times
    /\ running \in Reqs \cup {0}
    /\ \A r \in Reqs : pc[r] \in Body <=> running = r
    /\ \A r \in Reqs : pc[r] \in Body \cup {"new", "read", "done"}

Done200(r) == pc[r] = "done" /\ response[r].status = 200
Done401(r) == pc[r] = "done" /\ response[r].status = 401

\* The request has a dangerous detection in its batch.
HasDanger(r) ==
    \E k \in 1..Len(dets[r]) : Lower(dets[r][k].label) \in DANGER_CLASSES

\* The request has run its gate check (main.py:276) and whatever follows it.
PastGate(r) == pc[r] \in {"sms", "email", "commit", "respond"} \/ Done200(r)

\* The cooldown window had elapsed when the request read the clock.
ElapsedAtGate(r) == now[r] - lastSeen[r] >= ALERT_COOLDOWN_SECONDS

\* The request fired an alert: wrote the row and set _last_alert_time.
Fired(r) == alertRows[r] >= 1 /\ setLast[r]

Dist(a, b) == IF a >= b THEN a - b ELSE b - a

RECURSIVE SumOver(_, _)
SumOver(f, S) ==
    IF S = {} THEN 0
    ELSE LET x == CHOOSE y \in S : TRUE IN f[x] + SumOver(f, S \ {x})

\* C1: any two requests that fired an alert (alert row written and
\* _last_alert_time set) read clock values at least ALERT_COOLDOWN_SECONDS
\* apart, for every cooldown window.
C1_FiresAtLeastWindowApart ==
    \A r, q \in Reqs :
        r # q /\ Fired(r) /\ Fired(q)
            => Dist(now[r], now[q]) >= ALERT_COOLDOWN_SECONDS

\* Two alerts fired at different instants under a positive window.
C1_Witness ==
    /\ ALERT_COOLDOWN_SECONDS > 0
    /\ Fired(1) /\ Fired(2)
    /\ now[1] < now[2]
    /\ Done200(1) /\ Done200(2)

\* The dangerous requests that finished with the gate read at instant t.
DangerAt(t) == {r \in Reqs : Done200(r) /\ HasDanger(r) /\ now[r] = t}

C3_AlertIffDangerAndElapsed ==
    /\ \A r \in Reqs :
          /\ PastGate(r) => (alertRows[r] = 1 <=> HasDanger(r) /\ ElapsedAtGate(r))
          /\ pc[r] = "alert" => HasDanger(r) /\ ElapsedAtGate(r)
          /\ ~PastGate(r) => alertRows[r] = 0
          /\ alertRows[r] \in {0, 1}
    /\ Len(alerts) = SumOver(alertRows, Reqs)

\* The second request fired exactly when the window had just elapsed since
\* the first one's alert.
C3_Witness ==
    /\ ALERT_COOLDOWN_SECONDS >= 1
    /\ Done200(1) /\ Done200(2)
    /\ alertRows[1] = 1 /\ alertRows[2] = 1
    /\ lastSeen[2] = now[1]
    /\ now[2] - lastSeen[2] = ALERT_COOLDOWN_SECONDS
    /\ Len(alerts) = 2

\* C4: _last_alert_time never decreases.
C4_LastAlertMonotone ==
    [][_last_alert_time' >= _last_alert_time]_vars

\* _last_alert_time has been raised twice.
C4_Witness ==
    /\ setLast[1] /\ setLast[2]
    /\ now[1] # now[2]
    /\ _last_alert_time > StartTime

\* C5: a request that does not fire (no danger, or window not elapsed)
\* leaves _last_alert_time as it found it, writes no alert row and attempts
\* no SMS or email.
C5_NoFireNoEffect ==
    \A r \in Reqs :
        ((pc[r] = "respond" \/ Done200(r)) /\ ~(HasDanger(r) /\ ElapsedAtGate(r)))
            => /\ alertRows[r] = 0
               /\ sms[r] = "none"
               /\ email[r] = "none"
               /\ ~setLast[r]
               /\ pc[r] = "respond" =>
                     /\ _last_alert_time = lastSeen[r]
                     /\ Len(alerts) = SumOver(alertRows, Reqs \ {r})

\* A request with danger was suppressed by the cooldown, its detections on
\* record, and is about to return.
C5_Witness ==
    \E r \in Reqs :
        /\ pc[r] = "respond" /\ HasDanger(r) /\ ~ElapsedAtGate(r)
        /\ _last_alert_time = lastSeen[r]
        /\ Len(detections) > Len(dets[r])

\* Detections the request has persisted so far (i is the loop's position).
Persisted(r) == IF i[r] = 0 THEN 0 ELSE i[r] - 1

\* The rows main.py:259-269 writes for the k-th detection of the request.
DetRow(r, k) ==
    LET d == dets[r][k]
    IN  [timestamp |-> ts_db[r], label |-> d.label, confidence |-> d.confidence,
         x |-> d.bbox[1], y |-> d.bbox[2],
         w |-> d.bbox[3] - d.bbox[1], h |-> d.bbox[4] - d.bbox[2],
         alert_sent |-> user[r]]

LogRow(r, k) ==
    LET d == dets[r][k]
    IN  [user_id |-> user[r], animal |-> d.label, confidence |-> d.confidence,
         image_path |-> "", message |-> "frame detection"]

\* Both tables hold one row per detection of the request, in batch order.
RowsOnRecord(r) ==
    LET n == Len(dets[r])
    IN  /\ \E off \in 0..(Len(detections) - n) :
              \A k \in 1..n : detections[off + k] = DetRow(r, k)
        /\ \E off \in 0..(Len(logs) - n) :
              \A k \in 1..n : logs[off + k] = LogRow(r, k)

\* The request is about to evaluate main.py:276, or has done so.
AtGate(r) == pc[r] = "persist" /\ i[r] > Len(dets[r])
Decided(r) == pc[r] \in {"alert", "sms", "email", "commit", "respond"} \/ Done200(r)

\* C6: when an authenticated request evaluates the cooldown decision, and
\* ever after, the tables hold one detection row and one log row for every
\* detection of its batch, whether the alert fires or is suppressed; the
\* tables hold nothing else.
C6_PersistedBeforeDecision ==
    /\ \A r \in Reqs : (AtGate(r) \/ Decided(r)) => RowsOnRecord(r)
    /\ Len(logs) = SumOver([r \in Reqs |-> Persisted(r)], Reqs)
    /\ Len(detections) = Len(logs) + Cardinality({r \in Reqs : pc[r] = "log"})

\* One request fired and another, with two or more detections, was
\* suppressed by the cooldown; the rows of both are in the table.
C6_Witness ==
    \E r, q \in Reqs :
        /\ Done200(r) /\ alertRows[r] = 1
        /\ Done200(q) /\ HasDanger(q) /\ alertRows[q] = 0
        /\ Len(dets[q]) >= 2
        /\ Len(detections) = Len(dets[r]) + Len(dets[q])

\* Some row of the users table carries the token (SQL: NULL matches nothing).
TokenResolves(t) == t # NULL /\ \E u \in DOMAIN users : users[u].token = t

\* C7: a request whose token resolves to no user ends with 401 in the step
\* that checks the token, and that step changes no table, no notification
\* record and not _last_alert_time; the request never runs inference.
C7_UnauthorizedDoesNothing ==
    /\ [](\A r \in Reqs :
            /\ (pc[r] # "new" /\ user[r] = None) => Done401(r)
            /\ Done401(r) =>
                  /\ user[r] = None
                  /\ dets[r] = <<>> /\ i[r] = 0 /\ now[r] = 0
                  /\ alertRows[r] = 0 /\ ~setLast[r]
                  /\ sms[r] = "none" /\ email[r] = "none")
    /\ [][\A r \in Reqs :
            /\ (pc[r] = "new" /\ pc'[r] # "new") =>
                  IF TokenResolves(token'[r])
                  THEN pc'[r] = "read" /\ user'[r] # None
                  ELSE /\ pc'[r] = "done" /\ response'[r].status = 401
                       /\ UNCHANGED <<tables, _last_alert_time, running, hist>>
            /\ Done401(r) => Done401(r)']_vars

\* A request without a token header and one with an unknown token were both
\* turned away; nothing was written.
C7_Witness ==
    /\ Done401(1) /\ token[1] = NULL
    /\ Done401(2) /\ token[2] = "stale"
    /\ detections = <<>> /\ logs = <<>> /\ alerts = <<>>
    /\ _last_alert_time = 0

\* The alerts table holds the row of the request's chosen detection.
AlertOnRecord(r) ==
    \E k \in 1..Len(alerts) :
        /\ alerts[k].animal = top[r].label
        /\ alerts[k].confidence = top[r].confidence
        /\ alerts[k].image_path = user[r]

\* The email channel is attempted exactly when the user has an address and
\* the credentials are set.
EmailAsConfigured(r) ==
    email[r] \in {"sent", "error"} <=>
        (users[user[r]].email # "" /\ email_creds)

\* C8: a provider error on SMS or email does not keep the other channel from
\* being attempted and does not fail the request: it returns the batch with
\* 200, and its detection rows and alert row stay.
C8_ChannelFailureIsolated ==
    \A r \in Reqs :
        /\ (sms[r] = "error" /\ pc[r] \in {"commit", "respond", "done"})
              => email[r] # "none" /\ EmailAsConfigured(r)
        /\ (sms[r] = "error" \/ email[r] = "error")
              => /\ pc[r] \in {"email", "commit", "respond"} \/ Done200(r)
                 /\ alertRows[r] = 1 /\ AlertOnRecord(r)
                 /\ RowsOnRecord(r)
                 /\ pc[r] = "done" =>
                       /\ response[r] = [status |-> 200, detections |-> dets[r]]
                       /\ setLast[r]

\* One request's SMS failed and its email went out; the other's email
\* failed; both returned 200.
C8_Witness ==
    \E r, q \in Reqs :
        /\ r # q
        /\ Done200(r) /\ sms[r] = "error" /\ email[r] = "sent"
        /\ Done200(q) /\ email[q] = "error"
        /\ Len(alerts) = 2

\* The request has gone through the SMS call / the email branch.
Returning(r) == (pc[r] = "respond" \/ Done200(r)) /\ alertRows[r] = 1
PastSms(r)   == pc[r] \in {"email", "commit"} \/ Returning(r)
PastEmail(r) == pc[r] = "commit" \/ Returning(r)

\* C9: SMS is attempted only with the Twilio client and the destination
\* number set, email only for a user with an address and with the email
\* credentials set; a channel that is not configured is skipped in silence,
\* so with SMS unset and email set the alert sends no SMS, attempts the
\* email and the request returns 200.
C9_ChannelsOnlyWhenConfigured ==
    \A r \in Reqs :
        /\ sms[r] \in {"sent", "error"} => twilio_client /\ DEMO_SMS_NUMBER
        /\ PastSms(r) =>
              (sms[r] = "skipped" <=> ~(twilio_client /\ DEMO_SMS_NUMBER))
        /\ ~PastSms(r) => sms[r] = "none"
        /\ PastEmail(r) =>
              /\ EmailAsConfigured(r)
              /\ email[r] = "noaddress" <=> users[user[r]].email = ""
              /\ email[r] = "disabled" <=>
                    (users[user[r]].email # "" /\ ~email_creds)
        /\ ~PastEmail(r) => email[r] = "none"
        /\ (pc[r] = "done" /\ user[r] # None) => response[r].status = 200

\* SMS not configured (no destination number), email configured: the alert
\* sent no SMS, sent the email, and the request returned 200.
C9_Witness ==
    \E r \in Reqs :
        /\ twilio_client /\ ~DEMO_SMS_NUMBER /\ email_creds
        /\ Done200(r) /\ alertRows[r] = 1
        /\ sms[r] = "skipped" /\ email[r] = "sent"

\* d is a dangerous detection of the batch with the largest confidence among
\* the dangerous ones, and the first of those in batch order.
IsFirstMaxDanger(batch, d) ==
    \E k \in 1..Len(batch) :
        /\ batch[k] = d
        /\ Lower(d.label) \in DANGER_CLASSES
        /\ \A j \in 1..Len(batch) :
              Lower(batch[j].label) \in DANGER_CLASSES =>
                  /\ batch[j].confidence <= d.confidence
                  /\ j < k => batch[j].confidence < d.confidence

ExampleBatch == << Det("lion", 90), Det("human", 95), Det("deer", 99) >>

\* C10: the detection chosen for the alert is a dangerous detection of the
\* batch of maximum confidence among the dangerous ones, the first of them
\* in batch order, and the alert row carries it; a harmless detection is
\* never chosen.  For the batch [(lion,0.9),(human,0.95),(deer,0.99)] the
\* selection with danger set {lion, human} gives (human,0.95); with the
\* program's own DANGER_CLASSES, which has no "human", it gives (lion,0.9).
C10_TopIsFirstMaxDanger ==
    /\ \A r \in Reqs :
          /\ (pc[r] \in {"alert", "sms", "email", "commit"} \/ Returning(r))
                => /\ IsFirstMaxDanger(dets[r], top[r])
                   /\ alertRows[r] = 1 => AlertOnRecord(r)
          /\ (AtGate(r) \/ Decided(r)) /\ ~HasDanger(r) => top[r] = NoDet
    /\ max_confidence(DangerIn(ExampleBatch, {"lion", "human"})) = Det("human", 95)
    /\ max_confidence(Danger(ExampleBatch)) = Det("lion", 90)

\* A tie between two dangerous detections behind a more confident harmless
\* one: the first of the two is in the alert row.
C10_Witness ==
    /\ pc[1] = "sms"
    /\ dets[1] = << Det("deer", 99), Det("Tiger", 90), Det("lion", 90) >>
    /\ top[1] = Det("Tiger", 90)
    /\ alerts = << [animal |-> "Tiger", confidence |-> 90,
                    image_path |-> 2, is_read |-> 0,
                    timestamp |-> StartTime] >>

\* A write of the request's persisting loop raised, at detection i[r].
PersistFault(r) == fault[r] \in {"insert_detection", "insert_log"}

\* The tables hold the rows of the k-th detection of the request.
HasRows(r, k) ==
    /\ \E n \in 1..Len(detections) : detections[n] = DetRow(r, k)
    /\ \E n \in 1..Len(logs) : logs[n] = LogRow(r, k)

\* C11: a failure of one detection or log write does not abort the
\* remaining writes: every other detection of the batch still gets its
\* detection row and its log row, and the request goes on to the gate check
\* (it reads the clock at main.py:273).
C11_WriteFailureDoesNotAbort ==
    \A r \in Reqs :
        (PersistFault(r) /\ pc[r] = "done")
            => /\ \A k \in 1..Len(dets[r]) : k # i[r] => HasRows(r, k)
               /\ now[r] # 0

\* The log rows tagged "DANGER ALERT".
DangerAlertLogs == {k \in 1..Len(logs) : logs[k].message = "DANGER ALERT"}

\* The request is dispatching its notifications, or has done so.
Dispatching(r) == pc[r] \in {"sms", "email", "commit"} \/ Returning(r)

\* C12: every request that fires an alert has persisted exactly one alert
\* row and exactly one log row tagged "DANGER ALERT" before it dispatches
\* its notifications; once no request is in the middle of firing, the
\* "DANGER ALERT" log rows are as many as the alert rows.
C12_DangerAlertLogPerAlert ==
    /\ \A r \in Reqs :
          Dispatching(r) =>
              /\ alertRows[r] = 1
              /\ Cardinality({k \in DangerAlertLogs :
                                 logs[k].user_id = user[r]}) >= 1
    /\ (\A r \in Reqs : pc[r] \notin {"alert", "sms", "email", "commit"})
          => Cardinality(DangerAlertLogs) = Len(alerts)

\* The request was let in and has left main.py:249-250 behind.
Inferred(r) == user[r] # None /\ pc[r] \notin {"new", "read"}

\* C13: a request served without a loaded model, or with a frame that is no
\* image, ends with an error status and writes no row.  (The frame that is
\* no image does end 500 at main.py:249; without a model run_inference
\* answers the empty list, main.py:144-145, and the request ends 200.)
C13_AdapterFailureAborts ==
    \A r \in Reqs :
        (Inferred(r) /\ pc[r] = "done" /\ (~model \/ fault[r] = "decode"))
            => /\ response[r].status >= 400
               /\ Persisted(r) = 0 /\ alertRows[r] = 0

\* The request is sending its notifications (main.py:280-283).
Sending(r) == pc[r] \in {"sms", "email"}

\* C14: _last_alert_time is written before notification dispatch starts, so
\* a request that is sending SMS or email has already committed its firing
\* decision and no other gate check sees the old value.  (The write is
\* main.py:285, after the notifications of main.py:280-283; a dispatch that
\* raises never reaches it.)
C14_GateCommitsBeforeDispatch ==
    \A r \in Reqs :
        Sending(r) => /\ _last_alert_time = now[r]
                      /\ \A q \in Reqs \ {r} : ~AtGate(q)

\* What run_inference can answer under the configuration.
InferenceResults == IF model THEN Batches ELSE {<<>>}

\* C15: every authenticated /detect request that completes returns the
\* whole batch inference produced, every detection with its label,
\* confidence and bbox in batch order, whether its alert fired, was
\* suppressed by the cooldown or the batch had no danger; the batch is not
\* altered between inference and response.
C15_ReturnsFullBatch ==
    /\ [](\A r \in Reqs :
            (pc[r] = "done" /\ user[r] # None)
                => /\ response[r] = [status |-> 200, detections |-> dets[r]]
                   /\ dets[r] \in InferenceResults)
    /\ [][\A r \in Reqs : pc[r] \in Body => dets'[r] = dets[r]]_vars

\* One request fired and returned its three detections, the other was
\* suppressed by the cooldown and returned its two.
C15_Witness ==
    /\ Done200(1) /\ alertRows[1] = 1
    /\ response[1].detections = ExampleBatch
    /\ Done200(2) /\ HasDanger(2) /\ alertRows[2] = 0
    /\ Len(response[2].detections) = 2

AllRead == \A k \in 1..Len(alerts) : alerts[k].is_read = 1

\* C16: mark_all_alerts_read is idempotent: running it on the table it has
\* just produced yields that table again, and running it when every alert
\* is already read changes no row; what it yields differs from the table
\* only in is_read, which is 1 in every row.
C16_MarkReadIdempotent ==
    /\ [](/\ AllRead => mark_all_alerts_read = alerts
          /\ Len(mark_all_alerts_read) = Len(alerts)
          /\ \A k \in 1..Len(alerts) :
                mark_all_alerts_read[k] = [alerts[k] EXCEPT !.is_read = 1])
    /\ [][alerts' = mark_all_alerts_read
              => mark_all_alerts_read' = alerts']_vars

\* The alerts were marked read when the first existed and again after the
\* second: a fetch in between saw one of them read and the other unread.
C16_Witness ==
    /\ Len(alerts) = 2 /\ AllRead
    /\ Len(fetched) = 2
    /\ fetched[1].is_read # fetched[2].is_read

\* C17: every alert row is created unread; the flag of an existing row
\* changes only from unread to read and only in a step of mark-all-read,
\* which is no step of a detect, fetch, login or register request; no step
\* changes any other field of an existing row or removes a row.
C17_AlertRowsOnlyMarkedRead ==
    [][/\ Len(alerts') >= Len(alerts)
       /\ \A k \in (Len(alerts) + 1)..Len(alerts') : alerts'[k].is_read = 0
       /\ \A k \in 1..Len(alerts) :
             /\ alerts'[k] = [alerts[k] EXCEPT !.is_read = alerts'[k].is_read]
             /\ alerts'[k].is_read # alerts[k].is_read
                   => /\ alerts[k].is_read = 0 /\ alerts'[k].is_read = 1
                      /\ alerts' = mark_all_alerts_read
                      /\ UNCHANGED <<users, detections, logs, locals, hist,
                                     api, running, _last_alert_time>>]_vars

\* The first alert was marked read, the second is new and unread; a fetch
\* and a login have been served as well.
C17_Witness ==
    /\ Len(alerts) = 2
    /\ alerts[1].is_read = 1 /\ alerts[2].is_read = 0
    /\ Len(fetched) >= 1
    /\ auth[1].status = 200
    /\ \A r \in Reqs : Done200(r)

\* C18: a request that passed the gate and whose insert_alert raised sends
\* no SMS and no email and leaves _last_alert_time as it was, so the next
\* dangerous request is judged against the last alert actually written and
\* can still fire; _last_alert_time is written only by a request whose
\* alert row was written, with that request's clock reading.
C18_FailedAlertLeavesGateOpen ==
    /\ [](\A r \in Reqs :
            /\ fault[r] = "insert_alert"
                  => /\ pc[r] = "done" /\ response[r] = ServerError
                     /\ HasDanger(r) /\ ElapsedAtGate(r)
                     /\ alertRows[r] = 0 /\ ~setLast[r]
                     /\ sms[r] = "none" /\ email[r] = "none"
            /\ lastSeen[r] # 0
                  => \E q \in Reqs \ {r} :
                        /\ alertRows[q] = 1 /\ setLast[q]
                        /\ fault[q] = "none" /\ now[q] = lastSeen[r]
            /\ (PastGate(r) /\ HasDanger(r) /\ ElapsedAtGate(r))
                  => alertRows[r] = 1)
    /\ [][/\ \A r \in Reqs :
                (fault[r] = "none" /\ fault'[r] = "insert_alert")
                    => UNCHANGED <<_last_alert_time, tables, sms, email>>
          /\ _last_alert_time' # _last_alert_time
                => \E r \in Reqs :
                      /\ alertRows[r] = 1 /\ AlertOnRecord(r)
                      /\ ~setLast[r] /\ setLast'[r]
                      /\ _last_alert_time' = now[r]]_vars

\* The first request's insert_alert raised; the second, deciding at the same
\* instant under a positive window, found _last_alert_time still 0 and fired.
C18_Witness ==
    /\ ALERT_COOLDOWN_SECONDS = MaxWindow
    /\ fault[1] = "insert_alert" /\ _last_alert_time = now[2]
    /\ Done200(2) /\ alertRows[2] = 1 /\ lastSeen[2] = 0
    /\ now[2] = now[1]
    /\ Len(alerts) = 1

\* Request q, of another user than r, judged its gate against the alert r
\* had fired, before the window since that alert was over.
InsideWindowOf(q, r) ==
    /\ Fired(r) /\ user[q] # None /\ user[q] # user[r]
    /\ pc[q] = "respond" \/ Done200(q)
    /\ HasDanger(q)
    /\ lastSeen[q] = now[r]
    /\ now[q] < now[r] + ALERT_COOLDOWN_SECONDS

\* C19: the cooldown is global across users: when a request of user A has
\* fired an alert at t, a request of another user B with a dangerous
\* detection that is judged before t + ALERT_COOLDOWN_SECONDS writes no alert
\* row and sends B no email (nor an SMS), while its detection rows and log
\* rows are written and it returns its batch.
C19_CooldownGlobalAcrossUsers ==
    \A r, q \in Reqs :
        (r # q /\ InsideWindowOf(q, r))
            => /\ alertRows[q] = 0 /\ ~setLast[q]
               /\ email[q] = "none" /\ sms[q] = "none"
               /\ Len(alerts) = 1 /\ alerts[1].image_path = user[r]
               /\ _last_alert_time = now[r]
               /\ RowsOnRecord(q)
               /\ Done200(q) => response[q].detections = dets[q]

\* User 2 fired; user 3's request with two dangerous detections came inside
\* the window and returned 200 with its rows on record and no alert.
C19_Witness ==
    /\ ALERT_COOLDOWN_SECONDS = MaxWindow
    /\ InsideWindowOf(2, 1)
    /\ user[1] = 2 /\ user[2] = 3
    /\ Done200(2) /\ Len(dets[2]) = 2
    /\ now[2] > now[1]
    /\ Len(detections) = Len(dets[1]) + 2

\* The tokens issued to user u, oldest first, the one it started with
\* included.
IssuedTo(u) ==
    LET first == IF u \in DOMAIN InitUsers /\ InitUsers[u].token # NULL
                 THEN << InitUsers[u].token >> ELSE <<>>
        later == SelectSeq(issued, LAMBDA e : e[1] = u)
    IN  first \o [k \in 1..Len(later) |-> later[k][2]]

\* t was a token of some user and a newer one has been issued to that user.
Superseded(t) ==
    \E u \in DOMAIN users :
        \E k \in 1..(Len(IssuedTo(u)) - 1) : IssuedTo(u)[k] = t

\* C20: each user has at most one valid session token, the last one issued
\* to it; once a successful login or register has issued a new token, the
\* user's earlier tokens resolve to no user in get_user_by_token, and a
\* /detect request sending one is answered 401; a failed login changes no
\* token.
C20_OneValidTokenPerUser ==
    /\ [](/\ \A u \in DOMAIN users :
                /\ Cardinality({t \in AuthTokenInputs :
                                   get_user_by_token(t) = u}) <= 1
                /\ IssuedTo(u) # <<>>
                      => /\ users[u].token = IssuedTo(u)[Len(IssuedTo(u))]
                         /\ get_user_by_token(users[u].token) = u
          /\ \A t \in AuthTokenInputs :
                Superseded(t) => get_user_by_token(t) = None
          /\ \A a \in AuthReqs :
                auth[a].status = 200
                    => /\ auth[a].token # NULL
                       /\ \E k \in 1..Len(issued) :
                             issued[k] = <<auth[a].user, auth[a].token>>)
    /\ [][/\ \A a \in AuthReqs :
                (auth[a].status = 0 /\ auth'[a].status \in {400, 401, 500})
                    => /\ issued' = issued
                       /\ \A u \in DOMAIN users :
                             users'[u].token = users[u].token
                       /\ auth'[a].status = 401 => users' = users
          /\ \A r \in Reqs :
                (pc[r] = "new" /\ pc'[r] # "new" /\ Superseded(token'[r]))
                    => Done401(r)']_vars

\* User 2 logged in and got a new token, a login with a wrong password was
\* refused; /detect with user 2's old token was answered 401, /detect with
\* the new one was let in.
C20_Witness ==
    /\ auth[1].status = 200 /\ auth[1].user = 2
    /\ auth[2].status = 401 /\ auth[2].password = "wrong"
    /\ Done401(1) /\ token[1] = "tokA"
    /\ pc[2] = "read" /\ token[2] = auth[1].token /\ user[2] = 2

=============================================================================
